---- MODULE Spec2Model ----
(***************************************************************************)
(* Model of static/app.js: the browser-side controller of one download     *)
(* job (URL sanitation, preview loader, submit / retry / cancel / new-job   *)
(* handlers and the polling loop).                                          *)
(*                                                                          *)
(* Every handler runs to its next await without interruption (the page is   *)
(* single threaded), so one action is one synchronous segment: from the     *)
(* event that starts it to the fetch it awaits or to its return.  Requests  *)
(* in flight, interval and timeout timers and pending image loads are       *)
(* state; their completions are actions the environment may take in any     *)
(* order.  A control can be clicked only while it is displayed.  Toasts and  *)
(* the text of the panels other than the progress bar and the status badge  *)
(* are not part of the state; the text of the url field is the input of     *)
(* the submit action.  Percentages are counted in tenths of a percent.      *)
(*                                                                          *)
(* Spec is the whole controller for probes without a channel avatar and     *)
(* polls that do not overlap; LiveSpec adds that the loader's 1000 ms timer *)
(* fires.  PreviewSpec follows the preview loader with thumbnail and avatar *)
(* loads, TrackSpec the jobs with overlapping polls and the observers       *)
(* switched on.  PercentSpec and UrlSpec apply updateProgress and           *)
(* cleanYouTubeUrl to sampled arguments.                                    *)
(***************************************************************************)
EXTENDS Integers, Sequences, FiniteSets, TLC

\* ------------------------------------------------------------------ bounds
MaxJobs     == 2   \* job ids the backend hands out in one run
MaxTimers   == 2   \* interval timers created in one run
MaxInflight == 1   \* /api/progress requests in flight at once
MaxCancel   == 1   \* /api/cancel requests in flight at once
MaxRetry    == 1   \* retry /api/start requests in flight at once
MaxDebounce == 1   \* 60 ms reveal timers pending at once
MaxOverlap  == 2   \* /api/progress requests in flight at once where polls overlap
MaxPasses   == 2   \* times a URL is fed back into cleanYouTubeUrl
MaxOver     == 30  \* how far (in tenths) a sampled progress leaves 0..100 %

\* ------------------------------------------------------------- vocabulary
NoJob   == 0       \* currentJobId = null
NoTimer == 0       \* pollTimer = null
NoUrl   == [form |-> "none", id |-> ""]   \* currentCleanUrl = null

Panels == {"preview", "previewSkel", "progressSkel", "progressBlock",
           "resultBlock", "cancelBlock", "errBox"}
Elems  == Panels \cup {"newBtnTop", "cancelBtn", "pwrapSkel"}

Statuses == {"queued", "downloading", "processing", "finished",
             "expired", "cancelled", "error"}
Terminal == {"finished", "expired", "cancelled", "error"}

\* ------------------------------------------------------- URL sanitation
\* A raw input is what `new URL(raw)` makes of it: parses (or throws), the
\* lower-cased hostname, the pathname as its '/'-separated segments (empty
\* segments kept) and the value of the v query parameter ("" when absent).
AllowedHosts == {"youtube.com", "www.youtube.com", "m.youtube.com",
                 "youtu.be", "music.youtube.com"}

RECURSIVE DropEmpty(_)
DropEmpty(segs) ==
    IF segs = << >> THEN << >>
    ELSE IF Head(segs) = "" THEN DropEmpty(Tail(segs))
    ELSE segs

RECURSIVE FilterNonEmpty(_)
FilterNonEmpty(segs) ==
    IF segs = << >> THEN << >>
    ELSE IF Head(segs) = "" THEN FilterNonEmpty(Tail(segs))
    ELSE <<Head(segs)>> \o FilterNonEmpty(Tail(segs))

\* path.startsWith('/watch'): the first segment begins with "watch"
WatchPrefixed == {"watch", "watchlater"}
StartsWithWatch(segs) == Len(segs) >= 1 /\ segs[1] \in WatchPrefixed

\* path.includes('/shorts/'): a segment "shorts" that is followed by a '/'
IncludesShorts(segs) ==
    \E i \in 1..(Len(segs) - 1) : segs[i] = "shorts"

IndexOfShorts(parts) ==
    IF \E i \in 1..Len(parts) : parts[i] = "shorts"
    THEN CHOOSE i \in 1..Len(parts) :
            parts[i] = "shorts" /\ \A j \in 1..(i - 1) : parts[j] # "shorts"
    ELSE 0

Rejected(msg) == [ok |-> FALSE, error |-> msg, url |-> NoUrl]
Accepted(form, id) == [ok |-> TRUE, error |-> "", url |-> [form |-> form, id |-> id]]

cleanYouTubeUrl(raw) ==
    IF ~raw.parses THEN Rejected("Invalid URL.")
    ELSE IF raw.host \notin AllowedHosts
         THEN Rejected("Only YouTube URLs are supported.")
    ELSE IF raw.host = "youtu.be"
         THEN LET rest == DropEmpty(raw.path)
                  id   == IF rest = << >> THEN "" ELSE rest[1]
              IN  IF id = "" THEN Rejected("Invalid youtu.be URL.")
                  ELSE Accepted("watch", id)
    ELSE IF StartsWithWatch(raw.path)
         THEN IF raw.v = "" THEN Rejected("Missing video id.")
              ELSE Accepted("watch", raw.v)
    ELSE IF IncludesShorts(raw.path)
         THEN LET parts == FilterNonEmpty(raw.path)
                  idx   == IndexOfShorts(parts)
              IN  IF idx = 0 \/ idx + 1 > Len(parts)
                  THEN Rejected("Invalid shorts URL.")
                  ELSE Accepted("shorts", parts[idx + 1])
    ELSE Rejected("Only direct YouTube video or shorts URLs are supported.")

\* What the user may have typed into the url field when the form is submitted.
RawInputs ==
    { [parses |-> TRUE, host |-> "youtu.be", path |-> <<"abc123">>, v |-> ""],
      [parses |-> TRUE, host |-> "www.youtube.com",
       path |-> <<"shorts", "xyz789">>, v |-> ""],
      [parses |-> TRUE, host |-> "vimeo.com", path |-> <<"12345">>, v |-> ""] }

\* ------------------------------------------------------------- URL text
\* The URL cleanYouTubeUrl returns is text built by a template literal; given
\* back to cleanYouTubeUrl it goes through `new URL` again.  Text is a
\* sequence of pieces: each character that delimits a part of a URL
\* ("/", "?", "#", "&", "=", "+", " ") is a piece, and so is every other run
\* of characters.
Words == {"", "watch", "shorts", "abc123", "xyz789", "a", "b",
          "a&b", "a+b", "a b", "a#b"}

Spell(w) ==
    CASE w = ""    -> << >>
      [] w = "a&b" -> <<"a", "&", "b">>
      [] w = "a+b" -> <<"a", "+", "b">>
      [] w = "a b" -> <<"a", " ", "b">>
      [] w = "a#b" -> <<"a", "#", "b">>
      [] OTHER     -> <<w>>
Unspell(t) == CHOOSE w \in Words : Spell(w) = t

\* `https://www.youtube.com/watch?v=${id}` and
\* `https://www.youtube.com/shorts/${id}`
href(url) ==
    IF url.form = "watch"
    THEN <<"https://www.youtube.com", "/", "watch", "?", "v", "=">> \o Spell(url.id)
    ELSE <<"https://www.youtube.com", "/", "shorts", "/">> \o Spell(url.id)

\* the pieces before the first piece in stops
RECURSIVE Before(_, _)
Before(t, stops) ==
    IF t = << >> \/ Head(t) \in stops THEN << >>
    ELSE <<Head(t)>> \o Before(Tail(t), stops)
\* the pieces after the first piece in stops (none when there is no such piece)
RECURSIVE After(_, _)
After(t, stops) ==
    IF t = << >> THEN << >>
    ELSE IF Head(t) \in stops THEN Tail(t)
    ELSE After(Tail(t), stops)
\* the runs of pieces between occurrences of sep
RECURSIVE Split(_, _)
Split(t, sep) ==
    IF \E k \in 1..Len(t) : t[k] = sep
    THEN <<Before(t, {sep})>> \o Split(After(t, {sep}), sep)
    ELSE <<t>>
\* application/x-www-form-urlencoded decoding of a value: '+' is a space
PlusToSpace(t) == [k \in 1..Len(t) |-> IF t[k] = "+" THEN " " ELSE t[k]]

\* URLSearchParams.get('v') on the pieces of the query: the value of the
\* first v=... pair, decoded ("" when there is none)
searchParamsGetV(query) ==
    LET pairs == Split(query, "&")
        isV(p) == Len(p) >= 2 /\ p[1] = "v" /\ p[2] = "="
    IN  IF \E k \in 1..Len(pairs) : isV(pairs[k])
        THEN LET k == CHOOSE k \in 1..Len(pairs) :
                         isV(pairs[k]) /\ \A j \in 1..(k - 1) : ~isV(pairs[j])
             IN  PlusToSpace(SubSeq(pairs[k], 3, Len(pairs[k])))
        ELSE << >>

\* new URL(text) for a text made by href: the fragment starts at the first
\* '#', the query at the first '?' before it, the pathname is what precedes
\* both; a space in the query is escaped by the parser and unescaped by
\* searchParams.
parseUrl(text) ==
    LET rest     == Before(Tail(text), {"#"})
        pathname == Before(rest, {"?"})
        query    == After(rest, {"?"})
        segs     == Split(Tail(pathname), "/")
    IN  [parses |-> TRUE,
         host   |-> "www.youtube.com",
         path   |-> [k \in 1..Len(segs) |-> Unspell(segs[k])],
         v      |-> Unspell(searchParamsGetV(query))]

\* Inputs of cleanYouTubeUrl taken on its own: every allowed host and one
\* that is not, paths of every shape the function tells apart, and video
\* ids with and without characters that delimit parts of a URL.  ('#', '?'
\* and ' ' reach an id only through an escaped query value.)
PathSamples ==
    { << >>, <<"watch">>, <<"abc123">>, <<"a&b">>, <<"a+b">>, <<"", "abc123">>,
      <<"shorts">>, <<"shorts", "">>, <<"shorts", "xyz789">>, <<"shorts", "a&b">> }
QuerySamples == {"", "abc123", "a", "a&b", "a+b", "a b", "a#b"}
UrlSamples ==
    {[parses |-> FALSE, host |-> "", path |-> << >>, v |-> ""]} \cup
    { [parses |-> TRUE, host |-> h, path |-> p, v |-> q] :
        h \in AllowedHosts \cup {"vimeo.com"}, p \in PathSamples,
        q \in QuerySamples }

\* ------------------------------------------------------------------ state
VARIABLES
    currentJobId,     \* let currentJobId
    currentCleanUrl,  \* let currentCleanUrl
    pollTimer,        \* let pollTimer: the handle last returned by setInterval
    liveTimers,       \* interval timers that have been set and not cleared
    nextJob,          \* the job id the backend hands out next
    nextTimer,        \* the handle setInterval returns next
    shown,            \* the elements on display (no d-none class); "pwrapSkel"
                      \* stands for the skel class on pwrap
    statusBadge,      \* statusBadge.textContent
    startBtnDisabled, \* startBtn.disabled
    loader,           \* the preview skeleton controller
    thumbLoading,     \* a load of thumb.src is pending (onload/onerror not yet fired)
    debounce,         \* pending 60 ms reveal timers set by loader.mark
    submitFlow,       \* where the submit handler is suspended
    retryReqs,        \* /api/start requests of retry handlers in flight
    pollReqs,         \* /api/progress requests in flight, in issue order
    cancelReqs,       \* /api/cancel requests in flight
    bar,              \* bar.style.width (tenths of a percent) and the whole
                      \* percent in bar.textContent
    avatarLoading,    \* a load of meta.channel_avatar is pending
    sample,           \* the argument of the one function a specification
                      \* applies on its own (kind "none" everywhere else)
    \* ---- history (observers; no action reads them in a guard)
    lastOp,           \* the handler segment that ran last ("callback": a click
                      \* that only sends, a timer or an image event)
    halted,           \* the job whose poll last ended the loop (terminal status
                      \* or failed poll), until a start or retry begins a new one
    attempt,          \* how far the latest submit attempt got, or "cleared"
    observe,          \* the observers below that a run keeps (fixed by Init)
    trail,            \* "trail": how many payloads of Scenario the responses
                      \* applied for the latest job have followed (-1: left it)
    late,             \* "late": per request in flight, whether a response to
                      \* a later request of the same job has been applied
    jobUrl,           \* "urls": the URL each job was started with
    cancelledJob      \* "urls": the job whose cancelled response was applied last

vars == <<currentJobId, currentCleanUrl, pollTimer, liveTimers, nextJob,
          nextTimer, shown, statusBadge, startBtnDisabled, loader,
          thumbLoading, debounce, submitFlow, retryReqs, pollReqs,
          cancelReqs, bar, avatarLoading, sample, lastOp, halted, attempt,
          observe, trail, late, jobUrl, cancelledJob>>

NoHalt    == [job |-> NoJob, by |-> "none"]
NoRaw     == [parses |-> FALSE, host |-> "", path |-> << >>, v |-> ""]
Idle      == [pc |-> "idle", url |-> NoUrl, raw |-> NoRaw, probed |-> FALSE]

\* ---------------------------------------------------------------- helpers
show(s, el) == s \cup {el}
hide(s, el) == s \ {el}

RemoveAt(s, i) == SubSeq(s, 1, i - 1) \o SubSeq(s, i + 1, Len(s))

Op(name, arg) == [op |-> name, arg |-> arg]

\* hide(previewSkel); show(preview)  -- the body of all three reveal callbacks
Reveal(s) == show(hide(s, "previewSkel"), "preview")

\* ----------------------------------------------------------------- loader
loaderReset(l) == [need |-> 0, done |-> 0, armed |-> FALSE, timeout |-> FALSE]
loaderAdd(l)   == [l EXCEPT !.need = @ + 1]
\* mark(): done++; the 60 ms timer is set when armed and done >= need
loaderMark(l)  == [l EXCEPT !.done = @ + 1]
markSetsTimer(l) == l.armed /\ l.done + 1 >= l.need
\* arm() with the 1000 ms timer set only on the need = 0 path
loaderArmCeilingInBranch(l) == [l EXCEPT !.armed = TRUE, !.timeout = (l.need = 0)]
\* arm(): armed = true; reveal at once when need = 0; always set the 1000 ms timer
loaderArm(l)   == [l EXCEPT !.armed = TRUE, !.timeout = TRUE]
armReveals(l)  == l.need = 0

\* ---------------------------------------------------------------- resetUI
\* The d-none / skel part of resetUI.
resetShown(s) == show((s \ Panels) \ {"newBtnTop", "pwrapSkel"}, "cancelBtn")
\* The two variables resetUI assigns besides the DOM: it sets currentJobId to
\* null and never touches pollTimer or the interval behind it.
resetJobId(j)       == NoJob
resetTimers(live)   == live

\* displayStatus(s).toUpperCase()
displayStatus(s) == IF s = "processing" THEN "downloading" ELSE s
UpperCase ==
    [s \in Statuses |->
        CASE s = "queued"      -> "QUEUED"
          [] s = "downloading" -> "DOWNLOADING"
          [] s = "processing"  -> "PROCESSING"
          [] s = "finished"    -> "FINISHED"
          [] s = "expired"     -> "EXPIRED"
          [] s = "cancelled"   -> "CANCELLED"
          [] s = "error"       -> "ERROR"]
badgeText(status) == UpperCase[displayStatus(status)]

\* --------------------------------------------------------- updateProgress
Tenths          == 10             \* tenths in one percent
ProcessingFloor == 99 * Tenths    \* pct < 99 -> pct = 99
PctMax          == 100 * Tenths   \* Math.min(100, pct)

Min(a, b) == IF a < b THEN a ELSE b
Max(a, b) == IF a > b THEN a ELSE b

\* (x).toFixed(0) for x >= 0, x in tenths: the nearest whole number, half up
toFixed0(x) == (x + 5) \div Tenths

\* The fields of a /api/progress payload the bar depends on: status, and
\* progress (has = FALSE: the field is missing or null).
Payload(status, has, progress) ==
    [status |-> status, has |-> has, progress |-> progress]

\* pct with Math.min(100, pct) alone, the lower clamp left out
pctClampedAbove(d) ==
    LET raw     == IF d.has THEN d.progress ELSE 0
        floored == IF d.status = "processing" /\ raw < ProcessingFloor
                   THEN ProcessingFloor ELSE raw
    IN  Min(PctMax, floored)
\* let pct = Number(d.progress || 0); the processing floor; the clamp
pct(d) ==
    LET raw     == IF d.has THEN d.progress ELSE 0
        floored == IF d.status = "processing" /\ raw < ProcessingFloor
                   THEN ProcessingFloor ELSE raw
    IN  Max(0, Min(PctMax, floored))

\* bar.style.width = pct + '%'; bar.textContent = pct.toFixed(0) + '%'
barOf(p) == [width |-> p, text |-> toFixed0(p)]
updateProgressBar(d) == barOf(pct(d))
ZeroBar == barOf(0)

\* -------------------------------------------------------------- observers
\* The poll responses of one job from its start to its end, as the backend
\* reports a download that succeeds.
Scenario ==
    << Payload("queued", FALSE, 0),
       Payload("downloading", TRUE, 40 * Tenths),
       Payload("processing", FALSE, 0),
       Payload("finished", TRUE, PctMax) >>

NoTrail == [job |-> NoJob, n |-> 0]
trailStart(j) == IF "trail" \in observe THEN [job |-> j, n |-> 0] ELSE trail
trailApply(j, d) ==
    IF "trail" \in observe /\ j = trail.job
    THEN IF trail.n >= 0 /\ trail.n < Len(Scenario) /\ Scenario[trail.n + 1] = d
         THEN [trail EXCEPT !.n = @ + 1]
         ELSE [trail EXCEPT !.n = -1]
    ELSE trail
trailLeave(j) ==
    IF "trail" \in observe /\ j = trail.job
    THEN [trail EXCEPT !.n = -1] ELSE trail

lateIssue    == IF "late" \in observe THEN Append(late, FALSE) ELSE late
lateDrop(i)  == IF "late" \in observe THEN RemoveAt(late, i) ELSE late
lateApply(i) ==
    IF "late" \in observe
    THEN RemoveAt([k \in 1..Len(late) |->
                     late[k] \/ (k < i /\ pollReqs[k] = pollReqs[i])], i)
    ELSE late

NoUrls == [j \in 1..MaxJobs |-> NoUrl]
urlStart(j, url) == IF "urls" \in observe THEN [jobUrl EXCEPT ![j] = url] ELSE jobUrl
cancelApply(j, status) ==
    IF "urls" \in observe /\ status = "cancelled" THEN j ELSE cancelledJob

NoSample == [kind |-> "none"]

\* ------------------------------------------------------------------- Init
\* The state after the script has run: init() calls resetUI.
PageLoaded ==
    /\ currentJobId = NoJob
    /\ currentCleanUrl = NoUrl
    /\ pollTimer = NoTimer
    /\ liveTimers = {}
    /\ nextJob = 1
    /\ nextTimer = 1
    /\ shown = resetShown({})
    /\ statusBadge = ""
    /\ startBtnDisabled = FALSE
    /\ loader = [need |-> 0, done |-> 0, armed |-> FALSE, timeout |-> FALSE]
    /\ thumbLoading = FALSE
    /\ debounce = 0
    /\ submitFlow = Idle
    /\ retryReqs = << >>
    /\ pollReqs = << >>
    /\ cancelReqs = << >>
    /\ bar = ZeroBar
    /\ avatarLoading = FALSE
    /\ lastOp = Op("init", "")
    /\ halted = NoHalt
    /\ attempt = "none"
    /\ trail = NoTrail
    /\ late = << >>
    /\ jobUrl = NoUrls
    /\ cancelledJob = NoJob

Init == PageLoaded /\ sample = NoSample /\ observe = {}

\* what a step that starts no job and handles no poll leaves alone
HistSame == UNCHANGED <<halted, sample, observe, trail, late, jobUrl, cancelledJob>>

\* -------------------------------------------------------------- new job
\* newBtnTop / newBtnCancel / newBtnResult click -> clearForNew
clearForNew ==
    /\ \/ "newBtnTop" \in shown
       \/ "cancelBlock" \in shown
       \/ "resultBlock" \in shown
    /\ shown' = resetShown(shown)
    /\ currentJobId' = resetJobId(currentJobId)
    /\ liveTimers' = resetTimers(liveTimers)
    /\ thumbLoading' = FALSE          \* thumb.removeAttribute('src')
    /\ attempt' = "cleared"
    /\ lastOp' = Op("clearForNew", "")
    /\ HistSame
    /\ bar' = ZeroBar                 \* bar.style.width / textContent = '0%'
    /\ avatarLoading' = FALSE        \* channelAvatar.removeAttribute('src')
    /\ UNCHANGED <<currentCleanUrl, pollTimer, nextJob, nextTimer, statusBadge,
                   startBtnDisabled, loader, debounce, submitFlow, retryReqs,
                   pollReqs, cancelReqs>>

\* ---------------------------------------------------------------- cancel
\* cancelBtn click: nothing without a job id, else POST /api/cancel/<id>
cancelClick ==
    /\ "cancelBtn" \in shown
    /\ IF currentJobId = NoJob
       THEN /\ UNCHANGED cancelReqs
            /\ lastOp' = Op("callback", "")
       ELSE /\ Len(cancelReqs) < MaxCancel
            /\ cancelReqs' = Append(cancelReqs, currentJobId)
            /\ lastOp' = Op("callback", "")
    /\ HistSame
    /\ UNCHANGED <<bar, avatarLoading>>
    /\ UNCHANGED <<currentJobId, currentCleanUrl, pollTimer, liveTimers,
                   nextJob, nextTimer, shown, statusBadge, startBtnDisabled,
                   loader, thumbLoading, debounce, submitFlow, retryReqs,
                   pollReqs, attempt>>

CancelOutcomes == {"ok", "notok", "fail"}

\* a cancel handler that switches to the cancelled panel itself once the
\* backend has acknowledged the cancel
cancelEffectForcesCancelled(outcome, st) ==
    IF outcome = "ok"
    THEN [st EXCEPT !.live = @ \ {st.timer},
                    !.shown = show(hide(@, "progressBlock"), "cancelBlock")]
    ELSE st
\* what the cancel handler does to the job state and the panels once its
\* request is answered or fails: nothing (it only shows a toast)
cancelEffect(outcome, st) == st

\* the /api/cancel response (r.ok, !r.ok) or its failure (catch)
cancelResponse(i, outcome) ==
    /\ i \in 1..Len(cancelReqs)
    /\ cancelReqs' = RemoveAt(cancelReqs, i)
    /\ LET st == cancelEffect(outcome,
                    [job |-> currentJobId, url |-> currentCleanUrl,
                     timer |-> pollTimer, live |-> liveTimers, shown |-> shown])
       IN  /\ currentJobId' = st.job
           /\ currentCleanUrl' = st.url
           /\ pollTimer' = st.timer
           /\ liveTimers' = st.live
           /\ shown' = st.shown
    /\ lastOp' = Op("cancelResponse", "")
    /\ HistSame
    /\ UNCHANGED <<bar, avatarLoading>>
    /\ UNCHANGED <<nextJob, nextTimer, statusBadge, startBtnDisabled, loader,
                   thumbLoading, debounce, submitFlow, retryReqs, pollReqs,
                   attempt>>

\* ----------------------------------------------------------------- retry
\* retryBtn click (the button sits in the cancelled panel)
retryClick ==
    /\ "cancelBlock" \in shown
    /\ IF currentCleanUrl = NoUrl
       THEN /\ lastOp' = Op("retryNoUrl", "")
            /\ UNCHANGED <<shown, retryReqs>>
       ELSE /\ Len(retryReqs) < MaxRetry
            /\ shown' = show(hide(shown, "cancelBlock"), "progressSkel")
            /\ retryReqs' = Append(retryReqs, currentCleanUrl)
            /\ lastOp' = Op("retryClick", "")
    /\ HistSame
    /\ UNCHANGED <<bar, avatarLoading>>
    /\ UNCHANGED <<currentJobId, currentCleanUrl, pollTimer, liveTimers,
                   nextJob, nextTimer, statusBadge, startBtnDisabled, loader,
                   thumbLoading, debounce, submitFlow, pollReqs, cancelReqs,
                   attempt>>

\* a start handler that stores start.job_id before it looks at start.ok
startFailedJobStoredEarly(j) == IF nextJob <= MaxJobs THEN nextJob ELSE NoJob
\* what a failed start (transport failure or ok = false) leaves of the job
\* identity and the timer handle: both as they were
startFailedJob(j)   == j
startFailedTimer(t) == t

\* the retry handler's /api/start answered with ok = true
retryStarted(i) ==
    /\ i \in 1..Len(retryReqs)
    /\ nextJob <= MaxJobs /\ nextTimer <= MaxTimers
    /\ retryReqs' = RemoveAt(retryReqs, i)
    /\ currentJobId' = nextJob
    /\ nextJob' = nextJob + 1
    /\ shown' = hide(show(show(show(hide(shown, "progressSkel"),
                     "progressBlock"), "pwrapSkel"), "cancelBtn"), "newBtnTop")
    /\ pollTimer' = nextTimer
    /\ liveTimers' = liveTimers \cup {nextTimer}
    /\ nextTimer' = nextTimer + 1
    /\ lastOp' = Op("retryStarted", "")
    /\ halted' = NoHalt
    /\ trail' = trailStart(nextJob)
    /\ jobUrl' = urlStart(nextJob, retryReqs[i])
    /\ UNCHANGED <<sample, observe, late, cancelledJob>>
    /\ UNCHANGED <<bar, avatarLoading>>
    /\ UNCHANGED <<currentCleanUrl, statusBadge, startBtnDisabled, loader,
                   thumbLoading, debounce, submitFlow, pollReqs, cancelReqs,
                   attempt>>

\* the retry handler's /api/start failed or was answered with ok = false
retryFailed(i) ==
    /\ i \in 1..Len(retryReqs)
    /\ retryReqs' = RemoveAt(retryReqs, i)
    /\ currentJobId' = startFailedJob(currentJobId)
    /\ pollTimer' = startFailedTimer(pollTimer)
    /\ shown' = hide(shown, "progressSkel")
    /\ lastOp' = Op("retryFailed", "")
    /\ HistSame
    /\ UNCHANGED <<bar, avatarLoading>>
    /\ UNCHANGED <<currentCleanUrl, liveTimers, nextJob, nextTimer,
                   statusBadge, startBtnDisabled, loader, thumbLoading,
                   debounce, submitFlow, pollReqs, cancelReqs, attempt>>

\* ---------------------------------------------------------------- submit
\* where the submit handler goes after a validation error and after a failed
\* probe: it returns
afterValidationError(flow) == Idle
\* a probe catch block without its return: the handler goes on to /api/start
afterProbeFailureFallsThrough(flow) == [flow EXCEPT !.pc = "start"]
afterProbeFailure(flow)    == Idle

\* a submit handler without its guard
submitNeverBlocked(disabled) == FALSE
\* if (startBtn.disabled) return;
submitBlocked(disabled) == disabled

\* form submit up to its first await (or its return on a validation error):
\* resetUI, disable the button, sanitize, show the skeletons, POST /api/probe
submit(raw) ==
    /\ ~submitBlocked(startBtnDisabled)
    /\ currentJobId' = resetJobId(currentJobId)
    /\ liveTimers' = resetTimers(liveTimers)
    /\ thumbLoading' = FALSE          \* thumb.removeAttribute('src')
    /\ LET cleaned == cleanYouTubeUrl(raw)
           flow    == [pc |-> "probe", url |-> cleaned.url, raw |-> raw,
                       probed |-> FALSE]
       IN  IF ~cleaned.ok
           THEN /\ startBtnDisabled' = FALSE
                /\ shown' = resetShown(shown)
                /\ submitFlow' = afterValidationError(flow)
                /\ attempt' = "invalid"
                /\ lastOp' = Op("submit", "invalid")
                /\ UNCHANGED currentCleanUrl
           ELSE /\ startBtnDisabled' = TRUE
                /\ currentCleanUrl' = cleaned.url
                /\ shown' = show(show(resetShown(shown), "previewSkel"),
                                 "progressSkel")
                /\ submitFlow' = flow
                /\ attempt' = "probing"
                /\ lastOp' = Op("submit", "probe")
    /\ HistSame
    /\ bar' = ZeroBar                 \* bar.style.width / textContent = '0%'
    /\ avatarLoading' = FALSE        \* channelAvatar.removeAttribute('src')
    /\ UNCHANGED <<pollTimer, nextJob, nextTimer, statusBadge, loader,
                   debounce, retryReqs, pollReqs, cancelReqs>>

\* /api/probe answered with ok = true: fill the preview, reset the loader,
\* add the thumbnail to it (the avatar is loaded without it), arm it, then
\* POST /api/start with currentCleanUrl
probeOk(hasThumb, hasAvatar) ==
    /\ submitFlow.pc = "probe"
    /\ LET l0 == loaderReset(loader)
           l1 == IF hasThumb THEN loaderAdd(l0) ELSE l0
       IN  /\ loader' = loaderArm(l1)
           /\ shown' = IF armReveals(l1) THEN Reveal(shown) ELSE shown
    /\ thumbLoading' = hasThumb       \* thumb.src = ... / removeAttribute('src')
    /\ submitFlow' = [submitFlow EXCEPT !.pc = "start", !.url = currentCleanUrl,
                                        !.probed = TRUE]
    /\ attempt' = "armed"
    /\ lastOp' = Op("probeOk", "")
    /\ HistSame
    /\ avatarLoading' = hasAvatar    \* channelAvatar.src = meta.channel_avatar
    /\ UNCHANGED bar
    /\ UNCHANGED <<currentJobId, currentCleanUrl, pollTimer, liveTimers,
                   nextJob, nextTimer, statusBadge, startBtnDisabled, debounce,
                   retryReqs, pollReqs, cancelReqs>>

\* /api/probe failed or was answered with ok = false (catch)
probeFailed ==
    /\ submitFlow.pc = "probe"
    /\ shown' = hide(shown, "previewSkel")
    /\ startBtnDisabled' = FALSE
    /\ submitFlow' = afterProbeFailure(submitFlow)
    /\ attempt' = "failed"
    /\ lastOp' = Op("probeFailed", "")
    /\ HistSame
    /\ UNCHANGED <<bar, avatarLoading>>
    /\ UNCHANGED <<currentJobId, currentCleanUrl, pollTimer, liveTimers,
                   nextJob, nextTimer, statusBadge, loader, thumbLoading,
                   debounce, retryReqs, pollReqs, cancelReqs>>

\* the submit handler's /api/start answered with ok = true
startOk ==
    /\ submitFlow.pc = "start"
    /\ nextJob <= MaxJobs /\ nextTimer <= MaxTimers
    /\ currentJobId' = nextJob
    /\ nextJob' = nextJob + 1
    /\ shown' = show(show(hide(shown, "progressSkel"), "progressBlock"),
                     "pwrapSkel")
    /\ pollTimer' = nextTimer
    /\ liveTimers' = liveTimers \cup {nextTimer}
    /\ nextTimer' = nextTimer + 1
    /\ startBtnDisabled' = FALSE
    /\ submitFlow' = Idle
    /\ lastOp' = Op("startOk", "")
    /\ halted' = NoHalt
    /\ trail' = trailStart(nextJob)
    /\ jobUrl' = urlStart(nextJob, submitFlow.url)
    /\ UNCHANGED <<sample, observe, late, cancelledJob>>
    /\ UNCHANGED <<bar, avatarLoading>>
    /\ UNCHANGED <<currentCleanUrl, statusBadge, loader, thumbLoading,
                   debounce, retryReqs, pollReqs, cancelReqs, attempt>>

\* the submit handler's /api/start failed or was answered with ok = false
startFailed ==
    /\ submitFlow.pc = "start"
    /\ currentJobId' = startFailedJob(currentJobId)
    /\ pollTimer' = startFailedTimer(pollTimer)
    /\ shown' = hide(shown, "progressSkel")
    /\ startBtnDisabled' = FALSE
    /\ submitFlow' = Idle
    /\ lastOp' = Op("startFailed", "")
    /\ HistSame
    /\ UNCHANGED <<bar, avatarLoading>>
    /\ UNCHANGED <<currentCleanUrl, liveTimers, nextJob, nextTimer,
                   statusBadge, loader, thumbLoading, debounce, retryReqs,
                   pollReqs, cancelReqs, attempt>>

\* ------------------------------------------------------- preview reveal
\* thumb.onload / thumb.onerror -> loader.mark()
thumbEvent ==
    /\ thumbLoading
    /\ thumbLoading' = FALSE
    /\ loader' = loaderMark(loader)
    /\ IF markSetsTimer(loader)
       THEN /\ debounce < MaxDebounce
            /\ debounce' = debounce + 1
       ELSE UNCHANGED debounce
    /\ lastOp' = Op("callback", "")
    /\ HistSame
    /\ UNCHANGED <<bar, avatarLoading>>
    /\ UNCHANGED <<currentJobId, currentCleanUrl, pollTimer, liveTimers,
                   nextJob, nextTimer, shown, statusBadge, startBtnDisabled,
                   submitFlow, retryReqs, pollReqs, cancelReqs, attempt>>

\* the 60 ms timer set by mark fires
debounceFires ==
    /\ debounce > 0
    /\ debounce' = debounce - 1
    /\ shown' = Reveal(shown)
    /\ lastOp' = Op("callback", "")
    /\ HistSame
    /\ UNCHANGED <<bar, avatarLoading>>
    /\ UNCHANGED <<currentJobId, currentCleanUrl, pollTimer, liveTimers,
                   nextJob, nextTimer, statusBadge, startBtnDisabled, loader,
                   thumbLoading, submitFlow, retryReqs, pollReqs, cancelReqs,
                   attempt>>

\* the 1000 ms timer set by arm fires
ceilingFires ==
    /\ loader.timeout
    /\ loader' = [loader EXCEPT !.timeout = FALSE]
    /\ shown' = Reveal(shown)
    /\ lastOp' = Op("callback", "")
    /\ HistSame
    /\ UNCHANGED <<bar, avatarLoading>>
    /\ UNCHANGED <<currentJobId, currentCleanUrl, pollTimer, liveTimers,
                   nextJob, nextTimer, statusBadge, startBtnDisabled,
                   thumbLoading, debounce, submitFlow, retryReqs, pollReqs,
                   cancelReqs, attempt>>

\* channelAvatar.onload (empty) / onerror (falls back to the inline svg):
\* neither calls the loader
avatarEvent ==
    /\ avatarLoading
    /\ avatarLoading' = FALSE
    /\ lastOp' = Op("callback", "")
    /\ HistSame
    /\ UNCHANGED <<currentJobId, currentCleanUrl, pollTimer, liveTimers,
                   nextJob, nextTimer, shown, statusBadge, startBtnDisabled,
                   loader, thumbLoading, debounce, submitFlow, retryReqs,
                   pollReqs, cancelReqs, bar, attempt>>

\* --------------------------------------------------------------- polling
\* clearInterval(pollTimer): stops the interval behind the handle, if any
clearInterval(live, handle) == live \ {handle}

\* an interval timer fires poll(): return without a job id, else
\* GET /api/progress/<currentJobId>
tick(t, cap) ==
    /\ t \in liveTimers
    /\ IF currentJobId = NoJob
       THEN /\ UNCHANGED <<pollReqs, late>>
            /\ lastOp' = Op("callback", "")
       ELSE /\ Len(pollReqs) < cap
            /\ pollReqs' = Append(pollReqs, currentJobId)
            /\ late' = lateIssue
            /\ lastOp' = Op("callback", "")
    /\ UNCHANGED <<halted, sample, observe, trail, jobUrl, cancelledJob>>
    /\ UNCHANGED <<bar, avatarLoading>>
    /\ UNCHANGED <<currentJobId, currentCleanUrl, pollTimer, liveTimers,
                   nextJob, nextTimer, shown, statusBadge, startBtnDisabled,
                   loader, thumbLoading, debounce, submitFlow, retryReqs,
                   cancelReqs, attempt>>

\* the d-none / skel changes of poll for a payload with ok = true
pollShown(s, status) ==
    LET s1 == IF status # "queued" THEN hide(s, "pwrapSkel") ELSE s
    IN  CASE status = "finished" ->
               show(show(hide(s1, "cancelBtn"), "newBtnTop"), "resultBlock")
          [] status = "expired" ->
               show(hide(s1, "cancelBtn"), "newBtnTop")
          [] status = "cancelled" ->
               show(hide(hide(s1, "progressBlock"), "resultBlock"), "cancelBlock")
          [] status = "error" ->
               show(hide(show(s1, "errBox"), "cancelBtn"), "newBtnTop")
          [] OTHER -> s1

\* a /api/progress response with ok = true and payload d arrives
pollResponse(i, d) ==
    /\ i \in 1..Len(pollReqs)
    /\ pollReqs' = RemoveAt(pollReqs, i)
    /\ statusBadge' = badgeText(d.status)          \* updateProgress
    /\ shown' = pollShown(shown, d.status)
    /\ liveTimers' = IF d.status \in Terminal
                     THEN clearInterval(liveTimers, pollTimer)
                     ELSE liveTimers
    /\ halted' = IF d.status \in Terminal
                 THEN [job |-> pollReqs[i], by |-> "terminal"]
                 ELSE halted
    /\ lastOp' = Op("pollResponse", "")
    /\ trail' = trailApply(pollReqs[i], d)
    /\ late' = lateApply(i)
    /\ cancelledJob' = cancelApply(pollReqs[i], d.status)
    /\ UNCHANGED <<sample, observe, jobUrl>>
    /\ bar' = updateProgressBar(d)
    /\ UNCHANGED avatarLoading
    /\ UNCHANGED <<currentJobId, currentCleanUrl, pollTimer, nextJob,
                   nextTimer, startBtnDisabled, loader, thumbLoading, debounce,
                   submitFlow, retryReqs, cancelReqs, attempt>>

\* a /api/progress request fails, does not parse, or answers ok = false (catch)
pollFailed(i) ==
    /\ i \in 1..Len(pollReqs)
    /\ pollReqs' = RemoveAt(pollReqs, i)
    /\ liveTimers' = clearInterval(liveTimers, pollTimer)
    /\ shown' = show(hide(shown, "cancelBtn"), "newBtnTop")
    /\ halted' = [job |-> pollReqs[i], by |-> "failed"]
    /\ lastOp' = Op("pollFailed", "")
    /\ trail' = trailLeave(pollReqs[i])
    /\ late' = lateDrop(i)
    /\ UNCHANGED <<sample, observe, jobUrl, cancelledJob>>
    /\ UNCHANGED <<bar, avatarLoading>>
    /\ UNCHANGED <<currentJobId, currentCleanUrl, pollTimer, nextJob,
                   nextTimer, statusBadge, startBtnDisabled, loader,
                   thumbLoading, debounce, submitFlow, retryReqs, cancelReqs,
                   attempt>>

\* ------------------------------------------------------------------ Next
\* payloads of every status that carry no progress field
BarePayloads == {Payload(st, FALSE, 0) : st \in Statuses}

\* The controller with probes that name no channel avatar.
Next ==
    \/ \E raw \in RawInputs : submit(raw)
    \/ \E hasThumb \in BOOLEAN : probeOk(hasThumb, FALSE)
    \/ probeFailed
    \/ startOk
    \/ startFailed
    \/ clearForNew
    \/ cancelClick
    \/ \E i \in 1..MaxCancel, o \in CancelOutcomes : cancelResponse(i, o)
    \/ retryClick
    \/ \E i \in 1..MaxRetry : retryStarted(i)
    \/ \E i \in 1..MaxRetry : retryFailed(i)
    \/ \E t \in 1..MaxTimers : tick(t, MaxInflight)
    \/ \E i \in 1..MaxInflight, d \in BarePayloads : pollResponse(i, d)
    \/ \E i \in 1..MaxInflight : pollFailed(i)
    \/ thumbEvent
    \/ debounceFires
    \/ ceilingFires

Spec == Init /\ [][Next]_vars

\* ------------------------------------------------- the preview loader
\* The controller seen from its preview: probes that may name a thumbnail
\* and a channel avatar, and the image events and timers that follow; the
\* polls of the jobs that are started are left out.
PreviewNext ==
    \/ \E raw \in RawInputs : submit(raw)
    \/ \E hasThumb \in BOOLEAN, hasAvatar \in BOOLEAN : probeOk(hasThumb, hasAvatar)
    \/ probeFailed
    \/ startOk
    \/ startFailed
    \/ thumbEvent
    \/ avatarEvent
    \/ debounceFires
    \/ ceilingFires

PreviewSpec == Init /\ [][PreviewNext]_vars

\* ------------------------------------------------- jobs and their polls
\* The controller seen from its jobs: probes that name no image, no cancel
\* clicks, polls that may overlap in flight, and a backend that reports the
\* payloads of Scenario or a cancelled job.  The observers are kept.
TrackPayloads ==
    {Scenario[k] : k \in 1..Len(Scenario)} \cup {Payload("cancelled", FALSE, 0)}

TrackInit ==
    /\ PageLoaded
    /\ sample = NoSample
    /\ observe = {"trail", "late", "urls"}

TrackNext ==
    \/ \E raw \in RawInputs : submit(raw)
    \/ probeOk(FALSE, FALSE)
    \/ probeFailed
    \/ startOk
    \/ startFailed
    \/ clearForNew
    \/ retryClick
    \/ \E i \in 1..MaxRetry : retryStarted(i)
    \/ \E i \in 1..MaxRetry : retryFailed(i)
    \/ \E t \in 1..MaxTimers : tick(t, MaxOverlap)
    \/ \E i \in 1..MaxOverlap, d \in TrackPayloads : pollResponse(i, d)
    \/ \E i \in 1..MaxOverlap : pollFailed(i)

TrackSpec == TrackInit /\ [][TrackNext]_vars

\* ----------------------------------------- one function taken on its own
\* Everything a step of the two specifications below leaves alone.
PageSame ==
    UNCHANGED <<currentJobId, pollTimer, liveTimers, nextJob, nextTimer, shown,
                startBtnDisabled, loader, thumbLoading, debounce, submitFlow,
                retryReqs, pollReqs, cancelReqs, avatarLoading, halted,
                attempt, observe, trail, late, jobUrl, cancelledJob>>

\* payloads of every status whose progress runs from MaxOver tenths below
\* 0 % to MaxOver tenths above 100 %, and those without progress
PayloadSamples ==
    BarePayloads \cup
    {Payload(st, TRUE, p) : st \in Statuses, p \in (0 - MaxOver)..(PctMax + MaxOver)}

\* updateProgress(d) for the sampled payload
updateProgress ==
    /\ sample.kind = "payload"
    /\ bar' = updateProgressBar(sample.d)
    /\ statusBadge' = badgeText(sample.d.status)
    /\ lastOp' = Op("updateProgress", "")
    /\ PageSame
    /\ UNCHANGED <<currentCleanUrl, sample>>

PercentInit ==
    /\ PageLoaded
    /\ observe = {}
    /\ sample \in {[kind |-> "payload", d |-> d] : d \in PayloadSamples}
PercentNext == updateProgress
PercentSpec == PercentInit /\ [][PercentNext]_vars

\* cleanYouTubeUrl(raw) for the sampled input; the URL it returns is kept
\* (as the submit handler keeps it) and, as text, is the next input
normalizeAgain ==
    /\ sample.kind = "url"
    /\ sample.pass < MaxPasses
    /\ LET cleaned == cleanYouTubeUrl(sample.raw)
       IN  /\ cleaned.ok
           /\ currentCleanUrl' = cleaned.url
           /\ sample' = [kind |-> "url", raw |-> parseUrl(href(cleaned.url)),
                         pass |-> sample.pass + 1]
    /\ lastOp' = Op("cleanYouTubeUrl", "")
    /\ PageSame
    /\ UNCHANGED <<statusBadge, bar>>

UrlInit ==
    /\ PageLoaded
    /\ observe = {}
    /\ sample \in {[kind |-> "url", raw |-> r, pass |-> 0] : r \in UrlSamples}
UrlNext == normalizeAgain
UrlSpec == UrlInit /\ [][UrlNext]_vars

\* Timers that have been set and not cleared fire: the 1000 ms timer of the
\* loader is never starved.
LiveSpec == Spec /\ WF_vars(ceilingFires)

TypeOK ==
    /\ currentJobId \in 0..MaxJobs
    /\ pollTimer \in 0..MaxTimers
    /\ liveTimers \subseteq 1..MaxTimers
    /\ shown \subseteq Elems
    /\ startBtnDisabled \in BOOLEAN
    /\ Len(pollReqs) <= MaxOverlap
    /\ Len(retryReqs) <= MaxRetry
    /\ Len(cancelReqs) <= MaxCancel
    /\ debounce \in 0..MaxDebounce
    /\ submitFlow.pc \in {"idle", "probe", "start"}

\* ----------------------------------------------------------------------
\* The job of the poll request whose response a step handles.
Answered(i) == i \in 1..Len(pollReqs) /\ pollReqs' = RemoveAt(pollReqs, i)
\* A step issues a /api/progress request.
PollIssued == Len(pollReqs') > Len(pollReqs)

\* C1: once a job id is stored in currentJobId, a progress response that was
\* requested for another (superseded) job id is never applied to the UI.
C1_NoStaleResponseApplied ==
    [][\A i \in 1..MaxInflight :
         (lastOp'.op = "pollResponse" /\ Answered(i) /\ currentJobId # NoJob)
            => pollReqs[i] = currentJobId]_vars

\* C2: right after resetUI has run (new-job click, or the start of a form
\* submit) no polling interval timer is live.
C2_ResetStopsPolling ==
    lastOp.op \in {"submit", "clearForNew"} => liveTimers = {}

\* C3: at most one polling interval timer is live, and pollTimer holds its
\* handle.
C3_OnlyPollTimerLive == liveTimers \subseteq {pollTimer}

\* C4: after a response with a terminal status has been applied, no timer
\* tick issues a further /api/progress request for that job (until a start
\* or retry succeeds).
C4_TerminalStopsPolling ==
    [][(PollIssued /\ halted.by = "terminal")
          => pollReqs'[Len(pollReqs')] # halted.job]_vars

\* C5: a failed poll hides cancel and offers new-job, does not bring up the
\* cancelled panel, and is never retried: no timer tick issues a further
\* /api/progress request for that job.
C5_FailedPollStopsPolling ==
    [][/\ lastOp'.op = "pollFailed" =>
            /\ "cancelBtn" \notin shown'
            /\ "newBtnTop" \in shown'
            /\ ("cancelBlock" \in shown' => "cancelBlock" \in shown)
       /\ (PollIssued /\ halted.by = "failed")
            => pollReqs'[Len(pollReqs')] # halted.job]_vars

\* C6: a cancel click and the answer to (or failure of) its request leave
\* currentJobId, currentCleanUrl, pollTimer, the live timers and every
\* panel's visibility as they were; the cancelled panel comes up only in the
\* step that applies a poll response with status cancelled.
C6_CancelIsAdvisory ==
    [][/\ (cancelReqs' # cancelReqs \/ lastOp'.op = "cancelResponse")
            => UNCHANGED <<currentJobId, currentCleanUrl, pollTimer,
                           liveTimers, shown>>
       /\ ("cancelBlock" \notin shown /\ "cancelBlock" \in shown')
            => (lastOp'.op = "pollResponse" /\ statusBadge' = "CANCELLED")]_vars

\* a cancel request has been answered and the job is still being polled,
\* its progress block still on display
C6_Witness ==
    /\ lastOp.op = "cancelResponse"
    /\ currentJobId # NoJob
    /\ pollTimer \in liveTimers
    /\ "progressBlock" \in shown
    /\ "cancelBlock" \notin shown

\* C7 as claimed: after a failed start, in the submit or the retry flow,
\* currentJobId holds no job id.
C7_NoJobIdAfterFailedStart ==
    lastOp.op \in {"startFailed", "retryFailed"} => currentJobId = NoJob

\* C7 as amended: a failed start, in the submit or the retry flow, leaves
\* currentJobId and pollTimer as they were and starts no interval timer.
C7_FailedStartChangesNoJobState ==
    [][lastOp'.op \in {"startFailed", "retryFailed"}
          => UNCHANGED <<currentJobId, pollTimer, liveTimers, nextTimer>>]_vars

\* a retry has failed: the cancelled job's id is still in currentJobId and no
\* timer runs
C7_Witness ==
    /\ lastOp.op = "retryFailed"
    /\ currentJobId # NoJob
    /\ liveTimers = {}
    /\ retryReqs = << >>

\* C8: the submit flow has a /api/start request out only for an input that
\* normalized and whose probe was answered ok in that flow; a validation
\* error sends nothing; a failed probe sends no start, sets no job id and
\* starts no timer.
C8_StartOnlyAfterProbe ==
    [][/\ submitFlow'.pc = "start" =>
            /\ submitFlow'.probed
            /\ cleanYouTubeUrl(submitFlow'.raw).ok
            /\ submitFlow'.url = cleanYouTubeUrl(submitFlow'.raw).url
       /\ lastOp' = Op("submit", "invalid") =>
            /\ submitFlow'.pc = "idle"
            /\ UNCHANGED <<retryReqs, pollReqs, cancelReqs>>
       /\ lastOp'.op = "probeFailed" =>
            /\ submitFlow'.pc = "idle"
            /\ UNCHANGED <<retryReqs, currentJobId, pollTimer, liveTimers,
                           nextTimer>>]_vars

\* a probe has failed: the flow is over, nothing is in flight, no job, no timer
C8_Witness ==
    /\ lastOp.op = "probeFailed"
    /\ submitFlow = Idle
    /\ retryReqs = << >>
    /\ currentJobId = NoJob
    /\ liveTimers = {}
    /\ ~startBtnDisabled

\* C9: while the latest submit attempt is one whose probe failed, the
\* preview panel is not on display.
C9_NoPreviewAfterFailedProbe ==
    attempt = "failed" => "preview" \notin shown

\* C10: once a successful probe has armed the loader, the preview panel is
\* eventually revealed, whatever the image loads do, unless the user submits
\* again or starts over first.
C10_PreviewEventuallyRevealed ==
    (attempt = "armed") ~> ("preview" \in shown \/ attempt # "armed")

\* the ceiling timer alone revealed the preview: one image awaited, none done
C10_Witness ==
    /\ attempt = "armed"
    /\ loader.armed /\ loader.need = 1 /\ loader.done = 0
    /\ ~loader.timeout
    /\ debounce = 0
    /\ "preview" \in shown /\ "previewSkel" \notin shown

\* C11: for a payload with a numeric progress, the rendered width and text
\* lie in 0..100 %; with status processing a progress below 99 is rendered
\* as exactly 99 %, and one of 99 or more as itself, cut at 100 %.
C11_PercentInRange ==
    (lastOp.op = "updateProgress" /\ sample.d.has) =>
        LET d == sample.d
        IN  /\ bar.width >= 0 /\ bar.width <= PctMax
            /\ bar.text >= 0 /\ bar.text <= 100
            /\ (d.status = "processing" /\ d.progress < ProcessingFloor)
                  => (bar.width = ProcessingFloor /\ bar.text = 99)
            /\ (d.status = "processing" /\ d.progress >= ProcessingFloor)
                  => bar.width = (IF d.progress > PctMax THEN PctMax
                                  ELSE d.progress)

\* a processing payload reporting 40 % has been rendered as 99 %
C11_Witness ==
    /\ lastOp.op = "updateProgress"
    /\ sample.d = Payload("processing", TRUE, 40 * Tenths)
    /\ bar = [width |-> ProcessingFloor, text |-> 99]

\* C14: the URL cleanYouTubeUrl returns, given back to it, yields the same
\* ok result (same url, same kind).
C14_NormalizeIdempotent ==
    (sample.kind = "url" /\ sample.pass > 0) =>
        cleanYouTubeUrl(sample.raw)
            = Accepted(currentCleanUrl.form, currentCleanUrl.id)

\* C12: when the responses applied for a job while it is the current job
\* are, from its start, queued, downloading at 40 %, processing, finished
\* (reporting 100 %), then after the first the bar
\* shimmers, after the second the shimmer is off and the bar reads 40 %,
\* after the third it reads 99 %, and after the fourth it reads 100 %, the
\* result panel is on display and no interval timer is left to poll.
C12_ScenarioRenders ==
    [][(trail'.job = trail.job /\ trail'.n = trail.n + 1
            /\ currentJobId = trail.job) =>
         /\ trail'.n = 1 => "pwrapSkel" \in shown'
         /\ trail'.n = 2 => ("pwrapSkel" \notin shown' /\ bar'.text = 40)
         /\ trail'.n = 3 => bar'.text = 99
         /\ trail'.n = 4 => /\ bar'.text = 100
                            /\ "resultBlock" \in shown'
                            /\ liveTimers' = {}]_vars

\* C13: a retry click without a retained URL sends nothing; otherwise the
\* URL it sends to /api/start is the one the job was started with whose
\* cancelled response brought up the cancelled panel.
C13_RetrySendsCancelledJobsUrl ==
    [][/\ lastOp'.op = "retryNoUrl" => retryReqs' = retryReqs
       /\ lastOp'.op = "retryClick" =>
            /\ currentCleanUrl # NoUrl
            /\ retryReqs'[Len(retryReqs')] = jobUrl[cancelledJob]]_vars

\* the requests in flight that a later request of their job has overtaken
NumLate(l) == Cardinality({k \in 1..Len(l) : l[k]})

\* C15: no response is applied to a request after a response to a later
\* request of the same job has been applied (applying one takes no
\* overtaken request off the requests in flight).
C15_ResponsesAppliedInIssueOrder ==
    [][lastOp'.op = "pollResponse" => NumLate(late') >= NumLate(late)]_vars

\* C16: the preview comes up only in an attempt whose loader has been armed,
\* and an arm that finds need = 0 brings it up at once.
C16_RevealOnlyWhenArmed ==
    [][/\ ("preview" \notin shown /\ "preview" \in shown')
            => (attempt' = "armed" /\ loader'.armed)
       /\ (lastOp'.op = "probeOk" /\ loader'.need = 0)
            => "preview" \in shown']_vars

\* C17: a probe that names a thumbnail and an avatar registers both loads
\* before it arms the loader, and the 60 ms timer set by the thumbnail's
\* completion does not bring the preview up while the avatar is loading.
C17_AvatarAwaited ==
    [][/\ (lastOp'.op = "probeOk" /\ thumbLoading' /\ avatarLoading')
            => loader'.need = 2
       /\ ("preview" \notin shown /\ "preview" \in shown'
              /\ debounce' < debounce)
            => ~avatarLoading]_vars

\* C18: after a failed poll the error panel is on display, the cancel
\* control is hidden and the new-job control is on display, as after a
\* response with status error.
C18_FailedPollShowsErrorPanel ==
    lastOp.op = "pollFailed" =>
        /\ "errBox" \in shown
        /\ "cancelBtn" \notin shown
        /\ "newBtnTop" \in shown

\* C19: a submit handler starts only while no submit flow is in flight; the
\* start button is disabled exactly while a flow is in flight, and every
\* way out of a flow (validation error, probe failure, start failure, start
\* success) ends it with the button enabled.
C19_SubmitFlowsSerialized ==
    [][/\ lastOp'.op = "submit" => submitFlow.pc = "idle"
       /\ startBtnDisabled' <=> submitFlow'.pc # "idle"
       /\ (\/ lastOp'.op \in {"probeFailed", "startFailed", "startOk"}
           \/ lastOp' = Op("submit", "invalid"))
            => (submitFlow'.pc = "idle" /\ ~startBtnDisabled')]_vars

\* a second flow has ended on a failed start, after a first one that started
\* a job: the button is enabled and nothing of a flow is in flight
C19_Witness ==
    /\ lastOp.op = "startFailed"
    /\ nextJob > 1
    /\ submitFlow = Idle
    /\ ~startBtnDisabled

\* C20: at most one of the result, cancelled and error panels is on
\* display, and the cancelled panel never together with the progress block.
C20_PanelsExclusive ==
    /\ Cardinality({"resultBlock", "cancelBlock", "errBox"} \cap shown) <= 1
    /\ ~({"cancelBlock", "progressBlock"} \subseteq shown)
====
